---------------------------- MODULE Spec2Model ----------------------------
(***************************************************************************)
(* State-machine model of the twelvelabs-mcp clip pipeline.                *)
(*                                                                         *)
(*   Spec      one run of a clip-download entry point: the download_clips  *)
(*             tool of server.py, or download_clips of utils.py            *)
(*   SpecClip  download_clip of utils.py: the existing-file check, the     *)
(*             seek arithmetic, the child process, its two pipes and the   *)
(*             two drain threads, over a sequence of calls                 *)
(*   SpecDrainFair  one call of download_clip under a fair scheduler       *)
(*   SpecSeek  the command line of download_clip over all timestamps       *)
(*                                                                         *)
(* Python values are encoded so that every field has one type: None is     *)
(* NoneT for a timestamp, a dict key that may be missing is a *Key field.  *)
(***************************************************************************)
EXTENDS Integers, Sequences, FiniteSets, TLC

(* ------------------------------ bounds --------------------------------- *)
MaxItems == 2        \* top-level entries of search_result["data"]
MaxClips == 3        \* clips in one search result, over all its entries
MaxLimit == 3        \* largest num_clips
MaxCalls == 2        \* download_clip calls in one SpecClip behaviour
MaxLines == 3        \* lines a child process writes before it exits
PipeCap == 1         \* lines an OS pipe buffer holds
MaxStart == 11       \* largest start_time handed to download_clip
MaxDuration == 6     \* largest end_time - start_time

(* Python's None for a timestamp (clip.get("start") of a dict without it). *)
NoneT == -1

Min(a, b) == IF a < b THEN a ELSE b
Max(a, b) == IF a > b THEN a ELSE b

(* s[:n] of Python: a negative n drops the last -n elements. *)
PySlice(s, n) ==
    IF n >= 0 THEN SubSeq(s, 1, Min(n, Len(s)))
              ELSE SubSeq(s, 1, Max(0, Len(s) + n))

(* ------------------------- search results ------------------------------ *)
(* An entry of data is a dict.  tag is what the producer meant it to be    *)
(* (the class of the object in utils.py); the dict itself shows only       *)
(* whether it has a "clips" key and what start and end are.                *)
Forms == {"both", "nostart", "noend"}

ClipRec(id, form) ==
    [tag |-> "clip", id |-> id, clipsKey |-> "absent", clips |-> <<>>,
     start |-> IF form = "nostart" THEN NoneT ELSE 2 * id,
     end |-> IF form = "noend" THEN NoneT ELSE 2 * id + 1]

GroupRec(key, cl) ==
    [tag |-> "group", id |-> 0, clipsKey |-> key, clips |-> cl,
     start |-> NoneT, end |-> NoneT]

ShapeElems ==
    {[kind |-> "clip", n |-> 1], [kind |-> "absent", n |-> 0],
     [kind |-> "none", n |-> 0]}
    \cup {[kind |-> "list", n |-> k] : k \in 0..MaxClips}

RECURSIVE ClipCount(_, _)
ClipCount(shape, upto) ==
    IF upto = 0 THEN 0 ELSE ClipCount(shape, upto - 1) + shape[upto].n

Shapes ==
    {s \in UNION {[1..m -> ShapeElems] : m \in 0..MaxItems} :
        ClipCount(s, Len(s)) <= MaxClips}

(* The entries of a result of the given shape; the k-th clip in reading    *)
(* order has id k and the form forms[k].                                   *)
Build(shape, forms) ==
    [i \in 1..Len(shape) |->
        LET off == ClipCount(shape, i - 1) IN
        IF shape[i].kind = "clip"
        THEN ClipRec(off + 1, forms[off + 1])
        ELSE GroupRec(shape[i].kind,
                      [k \in 1..shape[i].n |-> ClipRec(off + k, forms[off + k])])]

SearchResults ==
    UNION {{Build(s, f) : f \in [1..ClipCount(s, Len(s)) -> Forms]} : s \in Shapes}

(* What the typed models of utils.py can hold: every clip has both         *)
(* timestamps and every group has a clips attribute (a list or None).      *)
WellFormed(clip) == clip.start # NoneT /\ clip.end # NoneT

IsTyped(d) ==
    \A k \in 1..Len(d) :
        IF d[k].tag = "clip" THEN WellFormed(d[k])
        ELSE /\ d[k].clipsKey # "absent"
             /\ \A j \in 1..Len(d[k].clips) : WellFormed(d[k].clips[j])

Limits == (0 - 1)..MaxLimit

(* --------------------------- selection --------------------------------- *)
(* bool(group.get("clips")): the key is there and the list is not empty.   *)
Truthy(item) == item.clipsKey = "list" /\ item.clips # <<>>

(* server.py: the loop over the groups, from group k on.                   *)
RECURSIVE GroupLoop(_, _, _, _)
GroupLoop(data, k, acc, n) ==
    IF k > Len(data) THEN acc
    ELSE IF Truthy(data[k])
         THEN LET ext == acc \o PySlice(data[k].clips, n) IN
              IF Len(ext) >= n THEN ext ELSE GroupLoop(data, k + 1, ext, n)
         ELSE GroupLoop(data, k + 1, acc, n)

(* server.py: clips_data[0] is taken for a group when it has a clips key.  *)
IsGrouped(data) == data # <<>> /\ data[1].clipsKey # "absent"

(* Faulty variant: every result taken for a flat one. *)
ServerGatherFlat(data, n) == PySlice(data, n)

ServerGather(data, n) ==
    IF IsGrouped(data) THEN GroupLoop(data, 1, <<>>, n) ELSE PySlice(data, n)

(* Faulty variant: the final truncation left out. *)
ServerTruncateNone(clips, n) == clips

ServerTruncate(clips, n) == PySlice(clips, n)

ServerSelect(data, n) == ServerTruncate(ServerGather(data, n), n)

(* utils.py: every entry is taken by its class.                            *)
RECURSIVE UtilsGather(_, _)
UtilsGather(data, k) ==
    IF k > Len(data) THEN <<>>
    ELSE (IF data[k].tag = "clip" THEN <<data[k]>>
          ELSE IF Truthy(data[k]) THEN data[k].clips ELSE <<>>)
         \o UtilsGather(data, k + 1)

UtilsTruncate(clips, n) == PySlice(clips, n)

UtilsSelect(data, n) == UtilsTruncate(UtilsGather(data, 1), n)

(* ------------------------------ state ---------------------------------- *)
VARIABLES
    entry,             \* "tool" (server.py) or "utils" (utils.py)
    num_clips,         \* the limit
    search_result,     \* search_result["data"]
    video_info,        \* "no_hls", "no_url" or "url"
    host_dir,          \* TRUE when TWELVELABS_MCP_BASE_PATH is set
    pc,                \* position of the run
    processed_clips,   \* the selection
    i,                 \* loop index, 0-based as in enumerate
    downloaded_clips,  \* entries appended so far
    ffmpeg_runs,       \* transcoder processes run: loop index and exit code
    result             \* what the run handed back to the host

runVars == <<entry, num_clips, search_result, video_info, host_dir, pc,
             processed_clips, i, downloaded_clips, ffmpeg_runs, result>>

(* utils.py: download_clip *)
VARIABLES
    files,     \* output paths that exist on disk
    calls,     \* download_clip calls made so far
    cpc,       \* position of the calling thread inside download_clip
    args,      \* arguments of the call in progress
    cmd,       \* the numbers put on the transcoder's command line
    log,       \* one record per call: what it found, did and returned
    proc,      \* per call: the child process
    pipe,      \* per call: lines waiting in the stdout and the stderr pipe
    thr        \* per call: the two drain threads

clipVars == <<files, calls, cpc, args, cmd, log, proc, pipe, thr>>

vars == <<runVars, clipVars>>

NoResult ==
    [kind |-> "none", status |-> "", message |-> "", clips_requested |-> 0,
     clips_downloaded |-> 0, clips |-> <<>>]

ErrorResult(msg) ==
    [kind |-> "error", status |-> "error", message |-> msg,
     clips_requested |-> 0, clips_downloaded |-> 0, clips |-> <<>>]

RaisedResult(exc) ==
    [kind |-> "raised", status |-> "", message |-> exc, clips_requested |-> 0,
     clips_downloaded |-> 0, clips |-> <<>>]

Report(n, clips) ==
    [kind |-> "report", status |-> "success", message |-> "",
     clips_requested |-> n, clips_downloaded |-> Len(clips), clips |-> clips]

(* utils.py returns the bare list of paths.                                *)
PathList(paths) ==
    [kind |-> "paths", status |-> "", message |-> "", clips_requested |-> 0,
     clips_downloaded |-> 0, clips |-> paths]

HasManifest(info) == info = "url"

InitRun ==
    /\ search_result \in SearchResults
    /\ entry \in (IF IsTyped(search_result) THEN {"tool", "utils"} ELSE {"tool"})
    /\ num_clips \in Limits
    /\ video_info \in (IF entry = "tool" THEN {"no_hls", "no_url", "url"} ELSE {"url"})
    /\ host_dir \in (IF entry = "tool" THEN BOOLEAN ELSE {TRUE})
    /\ pc = "start"
    /\ processed_clips = <<>>
    /\ i = 0
    /\ downloaded_clips = <<>>
    /\ ffmpeg_runs = <<>>
    /\ result = NoResult


(* ------------------- server.py: the download_clips tool ---------------- *)
(* host_dir is unset: the tool raises ValueError.                          *)
RaiseNoBasePath ==
    /\ entry = "tool" /\ pc = "start"
    /\ ~host_dir
    /\ pc' = "raised"
    /\ result' = RaisedResult("ValueError")
    /\ UNCHANGED <<clipVars, entry, num_clips, search_result, video_info, host_dir,
                   processed_clips, i, downloaded_clips, ffmpeg_runs>>

(* No hls, or no video_url in it: a structured error is returned.          *)
ReturnNoManifest ==
    /\ entry = "tool" /\ pc = "start"
    /\ host_dir
    /\ ~HasManifest(video_info)
    /\ pc' = "returned"
    /\ result' = ErrorResult("No HLS video URL found in video_info")
    /\ UNCHANGED <<clipVars, entry, num_clips, search_result, video_info, host_dir,
                   processed_clips, i, downloaded_clips, ffmpeg_runs>>

(* The selection, up to the final truncation.                              *)
SelectClips ==
    /\ entry = "tool" /\ pc = "start"
    /\ host_dir
    /\ HasManifest(video_info)
    /\ processed_clips' = ServerSelect(search_result, num_clips)
    /\ i' = 0
    /\ pc' = "loop"
    /\ UNCHANGED <<clipVars, entry, num_clips, search_result, video_info, host_dir,
                   downloaded_clips, ffmpeg_runs, result>>

(* Faulty variant: only the start is tested. *)
SkippedNoStart(clip) == clip.start = NoneT

(* The test that sends the loop to its next clip before anything is run.   *)
Skipped(clip) == clip.start = NoneT \/ clip.end = NoneT

SkipClip ==
    /\ entry = "tool" /\ pc = "loop"
    /\ i < Len(processed_clips)
    /\ Skipped(processed_clips[i + 1])
    /\ i' = i + 1
    /\ UNCHANGED <<clipVars, entry, num_clips, search_result, video_info, host_dir, pc,
                   processed_clips, downloaded_clips, ffmpeg_runs, result>>

(* Faulty variant: the index counts the clips downloaded so far. *)
ClipEntryDense(idx, clip) ==
    [index |-> Len(downloaded_clips), start |-> clip.start, end |-> clip.end,
     path |-> [dir |-> "host_dir", index |-> idx], clip_data |-> clip]

(* The entry appended for a downloaded clip.  The file name is             *)
(* clip_<8 random hex digits>_<index>.mp4; the random part is left out.    *)
ClipEntry(idx, clip) ==
    [index |-> idx, start |-> clip.start, end |-> clip.end,
     path |-> [dir |-> "host_dir", index |-> idx], clip_data |-> clip]

(* subprocess.run returns: the transcoder exited with 0.                   *)
ExtractOk ==
    /\ entry = "tool" /\ pc = "loop"
    /\ i < Len(processed_clips)
    /\ ~Skipped(processed_clips[i + 1])
    /\ ffmpeg_runs' = Append(ffmpeg_runs, [index |-> i, exit_code |-> 0])
    /\ downloaded_clips' = Append(downloaded_clips, ClipEntry(i, processed_clips[i + 1]))
    /\ i' = i + 1
    /\ UNCHANGED <<clipVars, entry, num_clips, search_result, video_info, host_dir, pc,
                   processed_clips, result>>

(* check=True turns a nonzero exit into CalledProcessError, which is       *)
(* caught and printed.                                                     *)
ExtractFailed ==
    /\ entry = "tool" /\ pc = "loop"
    /\ i < Len(processed_clips)
    /\ ~Skipped(processed_clips[i + 1])
    /\ ffmpeg_runs' = Append(ffmpeg_runs, [index |-> i, exit_code |-> 1])
    /\ i' = i + 1
    /\ UNCHANGED <<clipVars, entry, num_clips, search_result, video_info, host_dir, pc,
                   processed_clips, downloaded_clips, result>>

(* The transcoder cannot be launched: subprocess.run raises an OSError     *)
(* (FileNotFoundError), which the except clause does not name.             *)
ExtractCannotLaunch ==
    /\ entry = "tool" /\ pc = "loop"
    /\ i < Len(processed_clips)
    /\ ~Skipped(processed_clips[i + 1])
    /\ pc' = "raised"
    /\ result' = RaisedResult("FileNotFoundError")
    /\ UNCHANGED <<clipVars, entry, num_clips, search_result, video_info, host_dir,
                   processed_clips, i, downloaded_clips, ffmpeg_runs>>

ReturnReport ==
    /\ entry = "tool" /\ pc = "loop"
    /\ i = Len(processed_clips)
    /\ pc' = "returned"
    /\ result' = Report(num_clips, downloaded_clips)
    /\ UNCHANGED <<clipVars, entry, num_clips, search_result, video_info, host_dir,
                   processed_clips, i, downloaded_clips, ffmpeg_runs>>

(* ---------------------- utils.py: download_clips ----------------------- *)
(* result.clips is the returned list of paths.                             *)
UtilsSelectClips ==
    /\ entry = "utils" /\ pc = "start"
    /\ processed_clips' = UtilsSelect(search_result, num_clips)
    /\ i' = 0
    /\ IF processed_clips' = <<>>
       THEN pc' = "returned" /\ result' = PathList(<<>>)
       ELSE pc' = "loop" /\ UNCHANGED result
    /\ UNCHANGED <<clipVars, entry, num_clips, search_result, video_info, host_dir,
                   downloaded_clips, ffmpeg_runs>>

UtilsPath(idx, clip) ==
    [dir |-> "twelvelabs_clips", index |-> idx + 1, id |-> clip.id,
     start |-> clip.start, end |-> clip.end]

(* download_clip returned True.                                            *)
UtilsClipOk ==
    /\ entry = "utils" /\ pc = "loop"
    /\ i < Len(processed_clips)
    /\ downloaded_clips' = Append(downloaded_clips, UtilsPath(i, processed_clips[i + 1]))
    /\ i' = i + 1
    /\ UNCHANGED <<clipVars, entry, num_clips, search_result, video_info, host_dir, pc,
                   processed_clips, ffmpeg_runs, result>>

(* download_clip returned False.                                           *)
UtilsClipFailed ==
    /\ entry = "utils" /\ pc = "loop"
    /\ i < Len(processed_clips)
    /\ i' = i + 1
    /\ UNCHANGED <<clipVars, entry, num_clips, search_result, video_info, host_dir, pc,
                   processed_clips, downloaded_clips, ffmpeg_runs, result>>

UtilsReturn ==
    /\ entry = "utils" /\ pc = "loop"
    /\ i = Len(processed_clips)
    /\ pc' = "returned"
    /\ result' = PathList(downloaded_clips)
    /\ UNCHANGED <<clipVars, entry, num_clips, search_result, video_info, host_dir,
                   processed_clips, i, downloaded_clips, ffmpeg_runs>>

NextRun ==
    \/ RaiseNoBasePath
    \/ ReturnNoManifest
    \/ SelectClips
    \/ SkipClip
    \/ ExtractOk
    \/ ExtractFailed
    \/ ExtractCannotLaunch
    \/ ReturnReport
    \/ UtilsSelectClips
    \/ UtilsClipOk
    \/ UtilsClipFailed
    \/ UtilsReturn

(* ----------------------- utils.py: download_clip ----------------------- *)
Offset == 5

(* Faulty variant: the seek before the input is not clamped at 0. *)
InputSeekUnclamped(start_time) == start_time - Offset

InputSeek(start_time) == Max(0, start_time - Offset)

AccurateSeek(start_time) == start_time - InputSeek(start_time)

Duration(start_time, end_time) == end_time - start_time

Command(a) ==
    [input_seek |-> InputSeek(a.start_time),
     accurate_seek |-> AccurateSeek(a.start_time),
     duration |-> Duration(a.start_time, a.end_time)]

NoCommand == [input_seek |-> 0, accurate_seek |-> 0, duration |-> 0]

Streams == {"stdout", "stderr"}
Threads == {"stdout_thread", "stderr_thread"}
Paths == {"a.mp4", "b.mp4"}
Spans == {<<2, 8>>, <<10, 15>>}
AllSpans == {<<st, st + d>> : st \in 0..MaxStart, d \in 1..MaxDuration}

(* What a child writes before it exits: any lines, to either stream.       *)
Programs == UNION {[1..n -> Streams] : n \in 0..MaxLines}

(* Across several calls a child writes one line at most.                   *)
OneLinePrograms == {prog \in Programs : Len(prog) <= 1}

CallArgs(p, span) ==
    [video_url |-> "url", start_time |-> span[1], end_time |-> span[2],
     output_path |-> p]

NoArgs == [video_url |-> "", start_time |-> 0, end_time |-> 0, output_path |-> ""]

NoProc == [state |-> "none", program |-> <<>>, exit_code |-> 0, output_path |-> ""]

CallIds == 1..MaxCalls

LogEntry(a) ==
    [args |-> a, existed |-> a.output_path \in files, started |-> FALSE,
     done |-> FALSE, ret |-> FALSE, file_at_return |-> FALSE]

Returned(value) ==
    [log EXCEPT ![calls].done = TRUE, ![calls].ret = value,
                ![calls].file_at_return = args.output_path \in files]

ClipIdle ==
    /\ calls = 0
    /\ cpc = "idle"
    /\ args = NoArgs
    /\ cmd = NoCommand
    /\ log = <<>>
    /\ proc = [c \in CallIds |-> NoProc]
    /\ pipe = [c \in CallIds |-> [s \in Streams |-> 0]]
    /\ thr = [c \in CallIds |-> [t \in Threads |-> "none"]]

(* A caller calls download_clip once the previous call has returned.       *)
Call(p, span) ==
    /\ cpc = "idle"
    /\ calls < MaxCalls
    /\ calls' = calls + 1
    /\ args' = CallArgs(p, span)
    /\ log' = Append(log, LogEntry(CallArgs(p, span)))
    /\ cpc' = "called"
    /\ UNCHANGED <<files, cmd, proc, pipe, thr, runVars>>

(* Faulty variant: the existing file is not looked for. *)
FileNeverExists(p) == FALSE

(* os.path.exists(output_path): the clip is there, return True.            *)
FileExists(p) == p \in files

ReturnExisting ==
    /\ cpc = "called"
    /\ FileExists(args.output_path)
    /\ log' = Returned(TRUE)
    /\ cpc' = "idle"
    /\ UNCHANGED <<files, calls, args, cmd, proc, pipe, thr, runVars>>

BuildCommand ==
    /\ cpc = "called"
    /\ ~FileExists(args.output_path)
    /\ cmd' = Command(args)
    /\ cpc' = "built"
    /\ UNCHANGED <<files, calls, args, log, proc, pipe, thr, runVars>>

(* subprocess.Popen starts the child with two fresh pipes.                 *)
PopenStarts(prog) ==
    /\ cpc = "built"
    /\ proc' = [proc EXCEPT ![calls] =
                   [state |-> "running", program |-> prog, exit_code |-> 0,
                    output_path |-> args.output_path]]
    /\ log' = [log EXCEPT ![calls].started = TRUE]
    /\ cpc' = "spawned"
    /\ UNCHANGED <<files, calls, args, cmd, pipe, thr, runVars>>

(* subprocess.Popen raises (no such program): caught, return False.        *)
PopenRaises ==
    /\ cpc = "built"
    /\ log' = Returned(FALSE)
    /\ cpc' = "idle"
    /\ UNCHANGED <<files, calls, args, cmd, proc, pipe, thr, runVars>>

StartStdoutThread ==
    /\ cpc = "spawned"
    /\ thr' = [thr EXCEPT ![calls]["stdout_thread"] = "running"]
    /\ cpc' = "stdout_started"
    /\ UNCHANGED <<files, calls, args, cmd, log, proc, pipe, runVars>>

StartStderrThread ==
    /\ cpc = "stdout_started"
    /\ thr' = [thr EXCEPT ![calls]["stderr_thread"] = "running"]
    /\ cpc' = "waiting"
    /\ UNCHANGED <<files, calls, args, cmd, log, proc, pipe, runVars>>

(* process.wait() returns once the child has exited; nothing joins the     *)
(* two threads before the return.                                          *)
WaitReturns ==
    /\ cpc = "waiting"
    /\ proc[calls].state = "exited"
    /\ log' = Returned(proc[calls].exit_code = 0)
    /\ cpc' = "idle"
    /\ UNCHANGED <<files, calls, args, cmd, proc, pipe, thr, runVars>>

(* The child writes its next line; the write blocks while the pipe is full.*)
Blocked(c) ==
    /\ proc[c].state = "running"
    /\ proc[c].program # <<>>
    /\ pipe[c][Head(proc[c].program)] >= PipeCap

ChildWrite(c) ==
    /\ proc[c].state = "running"
    /\ proc[c].program # <<>>
    /\ ~Blocked(c)
    /\ pipe' = [pipe EXCEPT ![c][Head(proc[c].program)] = @ + 1]
    /\ proc' = [proc EXCEPT ![c].program = Tail(@)]
    /\ UNCHANGED <<files, calls, cpc, args, cmd, log, thr, runVars>>

(* The child exits, which closes its ends of both pipes.  An exit with 0   *)
(* has written the output file; a failed run may leave one behind.         *)
ChildExit(c, code, wrote) ==
    /\ proc[c].state = "running"
    /\ proc[c].program = <<>>
    /\ code = 0 => wrote
    /\ proc' = [proc EXCEPT ![c].state = "exited", ![c].exit_code = code]
    /\ files' = IF wrote THEN files \cup {proc[c].output_path} ELSE files
    /\ UNCHANGED <<calls, cpc, args, cmd, log, pipe, thr, runVars>>

(* Faulty variant: both threads are given the child's stdout. *)
StreamOfStdout(t) == "stdout"

(* The stream each thread was given as the argument of log_output.         *)
StreamOf(t) == IF t = "stdout_thread" THEN "stdout" ELSE "stderr"

(* log_output, one step of `for line in stream`.                           *)

ReadLine(c, t) ==
    /\ thr[c][t] = "running"
    /\ pipe[c][StreamOf(t)] > 0
    /\ pipe' = [pipe EXCEPT ![c][StreamOf(t)] = @ - 1]
    /\ UNCHANGED <<files, calls, cpc, args, cmd, log, proc, thr, runVars>>

(* End of file: the pipe is empty and its write end is closed.             *)
ReadEOF(c, t) ==
    /\ thr[c][t] = "running"
    /\ pipe[c][StreamOf(t)] = 0
    /\ proc[c].state = "exited"
    /\ thr' = [thr EXCEPT ![c][t] = "done"]
    /\ UNCHANGED <<files, calls, cpc, args, cmd, log, proc, pipe, runVars>>

(* --------------------------- specifications ---------------------------- *)
RunOff ==
    /\ entry = "none"
    /\ num_clips = 0
    /\ search_result = <<>>
    /\ video_info = "url"
    /\ host_dir = TRUE
    /\ pc = "off"
    /\ processed_clips = <<>>
    /\ i = 0
    /\ downloaded_clips = <<>>
    /\ ffmpeg_runs = <<>>
    /\ result = NoResult

(* One run of a clip-download entry point.                                 *)
Init == InitRun /\ files = {} /\ ClipIdle
Next == NextRun
Spec == Init /\ [][Next]_vars

(* download_clip called again and again on a disk that may hold clips.     *)
InitClip == RunOff /\ files \in SUBSET Paths /\ ClipIdle

(* The steps of the calling thread, for children that run any of progs.    *)
MainStep(progs) ==
    \/ ReturnExisting
    \/ BuildCommand
    \/ \E prog \in progs : PopenStarts(prog)
    \/ PopenRaises
    \/ StartStdoutThread
    \/ StartStderrThread
    \/ WaitReturns

ChildStep(c) ==
    \/ ChildWrite(c)
    \/ \E code \in {0, 1}, wrote \in BOOLEAN : ChildExit(c, code, wrote)

ThreadStep(c, t) ==
    \/ ReadLine(c, t)
    \/ ReadEOF(c, t)

NextClip ==
    \/ \E p \in Paths, span \in Spans : Call(p, span)
    \/ MainStep(OneLinePrograms)
    \/ \E c \in CallIds : ChildStep(c)
    \/ \E c \in CallIds, t \in Threads : ThreadStep(c, t)

SpecClip == InitClip /\ [][NextClip]_vars

(* One call of download_clip, from its entry on, with the scheduler fair   *)
(* to the calling thread, to the child and to each drain thread.           *)
InitDrain ==
    /\ RunOff
    /\ files \in SUBSET Paths
    /\ calls = 1
    /\ cpc = "called"
    /\ \E p \in Paths, span \in Spans :
          /\ args = CallArgs(p, span)
          /\ log = <<LogEntry(CallArgs(p, span))>>
    /\ cmd = NoCommand
    /\ proc = [c \in CallIds |-> NoProc]
    /\ pipe = [c \in CallIds |-> [s \in Streams |-> 0]]
    /\ thr = [c \in CallIds |-> [t \in Threads |-> "none"]]

NextDrain ==
    \/ MainStep(Programs)
    \/ ChildStep(1)
    \/ \E t \in Threads : ThreadStep(1, t)

SpecDrainFair ==
    /\ InitDrain
    /\ [][NextDrain]_vars
    /\ WF_vars(MainStep(Programs))
    /\ WF_vars(ChildStep(1))
    /\ \A t \in Threads : WF_vars(ThreadStep(1, t))

(* The command line of download_clip for every pair of timestamps.         *)
InitSeek ==
    /\ RunOff
    /\ files \in SUBSET {"a.mp4"}
    /\ calls = 1
    /\ cpc = "called"
    /\ \E span \in AllSpans :
          /\ args = CallArgs("a.mp4", span)
          /\ log = <<LogEntry(CallArgs("a.mp4", span))>>
    /\ cmd = NoCommand
    /\ proc = [c \in CallIds |-> NoProc]
    /\ pipe = [c \in CallIds |-> [s \in Streams |-> 0]]
    /\ thr = [c \in CallIds |-> [t \in Threads |-> "none"]]

NextSeek ==
    \/ ReturnExisting
    \/ BuildCommand

SpecSeek == InitSeek /\ [][NextSeek]_vars

(* ============================ properties =============================== *)
(* The clips of a search result in reading order: the entries of a flat    *)
(* result, the nested lists of a grouped one, one group after the other.   *)
RECURSIVE InputClips(_, _)
InputClips(data, k) ==
    IF k > Len(data) THEN <<>>
    ELSE (IF data[k].tag = "clip" THEN <<data[k]>>
          ELSE IF data[k].clipsKey = "list" THEN data[k].clips ELSE <<>>)
         \o InputClips(data, k + 1)

AllClips == InputClips(search_result, 1)

(* The two shapes of a search result. *)
IsFlatResult(data) == \A k \in 1..Len(data) : data[k].tag = "clip"
IsListOfGroups(data) == \A k \in 1..Len(data) : data[k].tag = "group"
HoldsLists(data) == \A k \in 1..Len(data) : data[k].clipsKey = "list"

RECURSIVE KeepWellFormed(_)
KeepWellFormed(clips) ==
    IF clips = <<>> THEN <<>>
    ELSE (IF WellFormed(Head(clips)) THEN <<Head(clips)>> ELSE <<>>)
         \o KeepWellFormed(Tail(clips))

(* The selection has been made in this state. *)
SelectionDone ==
    \/ pc = "loop"
    \/ result.kind \in {"report", "paths"}
    \/ (pc = "raised" /\ result.message = "FileNotFoundError")

(* ids number the clips of the input in reading order, so a sequence of    *)
(* input clips with increasing ids is a subsequence of the input.          *)
IsSubsequenceOfInput(sel) ==
    /\ \A k \in 1..Len(sel) :
          /\ sel[k].tag = "clip"
          /\ sel[k].id \in 1..Len(AllClips)
          /\ sel[k] = AllClips[sel[k].id]
    /\ \A k \in 1..(Len(sel) - 1) : sel[k].id < sel[k + 1].id

(* C1: for a flat result or a list of groups each holding a clip list, and *)
(* a limit L >= 0, the selection of either download_clips has at most L    *)
(* clips and is a subsequence of the input clips in their original order   *)
(* (groups in order, never interleaved, clips of a group in order).        *)
C1_SelectionBounded ==
    (/\ SelectionDone
     /\ num_clips >= 0
     /\ \/ IsFlatResult(search_result)
        \/ (IsListOfGroups(search_result) /\ HoldsLists(search_result)))
    => /\ Len(processed_clips) <= num_clips
       /\ IsSubsequenceOfInput(processed_clips)

(* C1 witness: a grouped result whose second group is cut by the limit.    *)
C1_Witness ==
    /\ entry = "tool" /\ pc = "loop"
    /\ IsListOfGroups(search_result) /\ HoldsLists(search_result)
    /\ Len(search_result) = 2
    /\ Len(search_result[1].clips) = 1 /\ Len(search_result[2].clips) = 2
    /\ num_clips = 2
    /\ Len(processed_clips) = 2
    /\ processed_clips[2].id = 2

(* The clips for which the tool started the transcoder, in order. *)
Attempted == [k \in 1..Len(ffmpeg_runs) |-> processed_clips[ffmpeg_runs[k].index + 1]]

ClaimShape ==
    \/ IsFlatResult(search_result)
    \/ (IsListOfGroups(search_result) /\ HoldsLists(search_result))

(* C2 as stated: the clips the tool attempts are the first min(L, k)       *)
(* well-formed entries of the input, k the number of well-formed entries:  *)
(* a malformed entry takes no slot.                                        *)
C2_MalformedNotCounted ==
    (entry = "tool" /\ result.kind = "report" /\ num_clips >= 0 /\ ClaimShape)
    => Attempted = PySlice(KeepWellFormed(AllClips), num_clips)

(* C2 amended: for a flat result or a list of groups each holding a clip   *)
(* list, and L >= 0, the clips the tool attempts are the well-formed       *)
(* entries among the first L clips of the input: the limit is applied      *)
(* first, and a malformed entry among the first L takes a slot and is      *)
(* skipped.                                                                *)
C2_TruncateThenFilter ==
    (entry = "tool" /\ result.kind = "report" /\ num_clips >= 0 /\ ClaimShape)
    => Attempted = KeepWellFormed(PySlice(AllClips, num_clips))

(* C2 witness: a finished run whose first slot went to a malformed entry   *)
(* while a well-formed entry beyond the limit was left out.                *)
C2_Witness ==
    /\ entry = "tool" /\ result.kind = "report"
    /\ IsFlatResult(search_result)
    /\ num_clips = 1
    /\ Len(search_result) = 2
    /\ ~WellFormed(search_result[1]) /\ WellFormed(search_result[2])
    /\ ffmpeg_runs = <<>>

(* The flat result with the same clips as a list of groups: the groups'    *)
(* clip lists, concatenated in order.                                      *)
FlatOf(data) == InputClips(data, 1)

SelectOf(data, n) ==
    IF entry = "utils" THEN UtilsSelect(data, n) ELSE ServerSelect(data, n)

(* C3 as stated: for every list of groups (a group's clip list may be      *)
(* empty, None or missing) and every limit, the selection from the grouped *)
(* result is the selection from the flat result with the same clips.       *)
C3_ShapeInvariant ==
    (SelectionDone /\ IsListOfGroups(search_result))
    => processed_clips = SelectOf(FlatOf(search_result), num_clips)

(* C3 amended: the same, for every limit L >= 0 and every list of groups   *)
(* whose first group has a clips key (its value, and any later group's     *)
(* clip list, may be empty, None or missing); utils.py, which tells groups *)
(* by their class, needs neither condition.                                *)
C3_ShapeInvariantFirstKey ==
    (/\ SelectionDone
     /\ IsListOfGroups(search_result)
     /\ \/ entry = "utils"
        \/ /\ num_clips >= 0
           /\ (search_result # <<>> => search_result[1].clipsKey # "absent"))
    => processed_clips = SelectOf(FlatOf(search_result), num_clips)

(* C3 witness: the tool has selected across two groups, the second of them *)
(* without a clips key and the first one cut by the limit.                 *)
C3_Witness ==
    /\ entry = "tool" /\ pc = "loop"
    /\ IsListOfGroups(search_result)
    /\ Len(search_result) = 2
    /\ Len(search_result[1].clips) = 3
    /\ search_result[2].clipsKey = "absent"
    /\ num_clips = 2
    /\ Len(processed_clips) = 2

(* C4: a run of the tool that passed both configuration checks and whose   *)
(* transcoder processes all ran to an exit returns a report with status    *)
(* "success", clips_requested = num_clips, clips_downloaded = the length   *)
(* of clips, and in clips exactly one entry per selected clip that has     *)
(* both timestamps and whose transcoder exited with 0, by increasing       *)
(* index, the index being the clip's position in the selection; every      *)
(* selected clip with both timestamps was attempted, whichever failed.     *)
C4_PartialSuccessReported ==
    (entry = "tool" /\ pc = "returned" /\ host_dir /\ HasManifest(video_info))
    => /\ result.kind = "report"
       /\ result.status = "success"
       /\ result.clips_requested = num_clips
       /\ result.clips_downloaded = Len(result.clips)
       /\ \A k \in 1..Len(result.clips) :
             /\ result.clips[k].index \in 0..(Len(processed_clips) - 1)
             /\ result.clips[k].clip_data = processed_clips[result.clips[k].index + 1]
             /\ result.clips[k].start = result.clips[k].clip_data.start
             /\ result.clips[k].end = result.clips[k].clip_data.end
             /\ \E r \in 1..Len(ffmpeg_runs) :
                   /\ ffmpeg_runs[r].index = result.clips[k].index
                   /\ ffmpeg_runs[r].exit_code = 0
       /\ \A k \in 1..(Len(result.clips) - 1) :
             result.clips[k].index < result.clips[k + 1].index
       /\ \A r \in 1..Len(ffmpeg_runs) :
             ffmpeg_runs[r].exit_code = 0
             => \E k \in 1..Len(result.clips) :
                   result.clips[k].index = ffmpeg_runs[r].index
       /\ \A j \in 1..Len(processed_clips) :
             WellFormed(processed_clips[j])
             <=> Cardinality({r \in 1..Len(ffmpeg_runs) :
                                 ffmpeg_runs[r].index = j - 1}) = 1
       /\ \A r \in 1..Len(ffmpeg_runs) :
             ffmpeg_runs[r].index \in 0..(Len(processed_clips) - 1)

(* C4 witness: three clips selected, the middle one failed, and the report *)
(* holds the first and the third under their positions 0 and 2.            *)
C4_Witness ==
    /\ entry = "tool" /\ pc = "returned" /\ result.kind = "report"
    /\ Len(processed_clips) = 3
    /\ Len(ffmpeg_runs) = 3
    /\ ffmpeg_runs[2].exit_code = 1
    /\ result.clips_requested = 3
    /\ result.clips_downloaded = 2
    /\ result.clips[1].index = 0
    /\ result.clips[2].index = 2

(* C5 as stated: with no manifest URL in the video record the tool returns *)
(* a structured error and starts no transcoder, whatever else it is given. *)
C5_NoManifestError ==
    (entry = "tool" /\ ~HasManifest(video_info))
    => /\ ffmpeg_runs = <<>>
       /\ pc # "start" => result.kind = "error" /\ result.status = "error"

(* C6 as stated: nothing raises out of the tool; every run ends with a     *)
(* report or a structured error, a missing base output path gives a        *)
(* structured error, a transcoder that cannot be launched a skipped clip.  *)
C6_NothingRaises ==
    entry = "tool"
    => /\ pc # "raised"
       /\ result.kind # "raised"
       /\ (pc # "start" /\ ~host_dir) => result.kind = "error"

(* Two consecutive finished calls with the same arguments. *)
SamePair(k) ==
    /\ k + 1 <= Len(log)
    /\ log[k].done /\ log[k + 1].done
    /\ log[k].args = log[k + 1].args

Starts(k) == IF log[k].started THEN 1 ELSE 0

(* C7 as stated: over any two consecutive calls of download_clip with the  *)
(* same URL, start, end and output path (the file not being there before   *)
(* the first) the transcoder is started once in total, and the second call *)
(* returns success without starting it.                                    *)
C7_Idempotent ==
    \A k \in 1..MaxCalls :
        (SamePair(k) /\ ~log[k].existed)
        => /\ Starts(k) + Starts(k + 1) = 1
           /\ ~log[k + 1].started
           /\ log[k + 1].ret

(* C7 amended: if the first of two such calls returns success, the second  *)
(* finds the file and returns success without starting the transcoder, so  *)
(* the transcoder is started at most once over the two calls: once when    *)
(* the file did not exist before the first call, not at all when it did.   *)
(* A first call whose transcoder fails and leaves no file is followed by a *)
(* second call that starts the transcoder again.                           *)
C7_IdempotentAfterSuccess ==
    \A k \in 1..MaxCalls :
        (SamePair(k) /\ log[k].ret)
        => /\ ~log[k + 1].started
           /\ log[k + 1].ret
           /\ log[k + 1].existed
           /\ Starts(k) + Starts(k + 1) = (IF log[k].existed THEN 0 ELSE 1)

(* C7 witness: the first call ran the transcoder and succeeded, the second *)
(* call with the same arguments returned success without running it.       *)
C7_Witness ==
    /\ SamePair(1)
    /\ ~log[1].existed /\ log[1].started /\ log[1].ret
    /\ ~log[2].started /\ log[2].ret

(* C8: for every start >= 0 and end > start the command line holds         *)
(* inputSeek = max(0, start - 5), accurateSeek = start - inputSeek and     *)
(* duration = end - start, so inputSeek >= 0, 0 <= accurateSeek <= 5 and   *)
(* inputSeek + accurateSeek = start; (10, 15) gives (5, 5, 5) and (2, 8)   *)
(* gives (0, 2, 6).                                                        *)
C8_SeekArithmetic ==
    cpc = "built"
    => /\ cmd.input_seek = (IF args.start_time > 5 THEN args.start_time - 5 ELSE 0)
       /\ cmd.input_seek >= 0
       /\ cmd.accurate_seek >= 0 /\ cmd.accurate_seek <= 5
       /\ cmd.input_seek + cmd.accurate_seek = args.start_time
       /\ cmd.duration = args.end_time - args.start_time
       /\ cmd.duration > 0
       /\ (args.start_time = 10 /\ args.end_time = 15)
          => (cmd.input_seek = 5 /\ cmd.accurate_seek = 5 /\ cmd.duration = 5)
       /\ (args.start_time = 2 /\ args.end_time = 8)
          => (cmd.input_seek = 0 /\ cmd.accurate_seek = 2 /\ cmd.duration = 6)

(* C8 witness: the command line built for start = 2 and end = 8.           *)
C8_Witness ==
    /\ cpc = "built"
    /\ args.start_time = 2 /\ args.end_time = 8
    /\ cmd = [input_seek |-> 0, accurate_seek |-> 2, duration |-> 6]

(* C9: with bounded pipes, a child that writes any finite sequence of      *)
(* lines to its two streams and exits, and a fair scheduler, a child       *)
(* blocked on a full pipe is unblocked, a started child exits, and the     *)
(* call that started it returns the outcome its exit code gives.           *)
C9_DrainNoDeadlock ==
    /\ Blocked(1) ~> ~Blocked(1)
    /\ (proc[1].state = "running") ~> (proc[1].state = "exited")
    /\ (cpc = "spawned")
       ~> (cpc = "idle" /\ log[1].done /\ log[1].ret = (proc[1].exit_code = 0))

(* C9 witness: the child is blocked on a full stderr pipe, with a line in  *)
(* the stdout pipe too, while the calling thread waits for its exit.       *)
C9_Witness ==
    /\ cpc = "waiting"
    /\ Blocked(1)
    /\ Head(proc[1].program) = "stderr"
    /\ pipe[1]["stdout"] > 0

(* C10 as stated: once a call of download_clip has returned, neither of    *)
(* its two drain threads is running, so no thread of one call runs during  *)
(* a later call.                                                           *)
C10_ListenersGoneAtReturn ==
    \A c \in 1..Len(log) :
        log[c].done => \A t \in Threads : thr[c][t] # "running"

=============================================================================
